---- MODULE Spec2Model ----
(***************************************************************************)
(* A model of approx's RelativeEq (src/src/relative_eq.rs): the primitive  *)
(* algorithm instantiated for f32 and f64, and the derived                 *)
(* implementations for slices, Cell and RefCell.                           *)
(*                                                                         *)
(* The primitive algorithm is run on IEEE-754 binary32 / binary64 values   *)
(* with their native arithmetic: round-to-nearest-even, gradual underflow, *)
(* overflow to infinity, NaN.  A float is a record                         *)
(*     [neg |-> sign bit, exp |-> biased exponent field, frac |-> fraction]*)
(* and the fraction field, like every wide natural number below, is a      *)
(* little-endian sequence of limbs in 0..Base-1 without a leading zero     *)
(* limb (<<>> is zero), so that equal numbers are equal sequences.         *)
(***************************************************************************)
EXTENDS Integers, Sequences, FiniteSets, TLC

---------------------------------------------------------------------------
(* Wide natural numbers.                                                   *)

\* a limb is 15 bits, so that the product of two limbs is within TLC's integers
Base == 2 ^ 15

RECURSIVE BitLenI(_)
BitLenI(n) == IF n = 0 THEN 0 ELSE 1 + BitLenI(n \div 2)

LimbBits == BitLenI(Base - 1)

Max(i, j) == IF i >= j THEN i ELSE j
Min(i, j) == IF i <= j THEN i ELSE j

RECURSIVE Norm(_)
Norm(s) ==
    IF s = <<>> THEN <<>>
    ELSE IF s[Len(s)] = 0 THEN Norm(SubSeq(s, 1, Len(s) - 1))
    ELSE s

RECURSIVE NatOf(_)
NatOf(n) == IF n = 0 THEN <<>> ELSE <<n % Base>> \o NatOf(n \div Base)

RECURSIVE AddC(_, _, _)
AddC(a, b, c) ==
    IF a = <<>> /\ b = <<>> THEN (IF c = 0 THEN <<>> ELSE <<c>>)
    ELSE LET x == IF a = <<>> THEN 0 ELSE Head(a)
             y == IF b = <<>> THEN 0 ELSE Head(b)
             s == x + y + c
         IN  <<s % Base>> \o AddC(IF a = <<>> THEN <<>> ELSE Tail(a),
                                  IF b = <<>> THEN <<>> ELSE Tail(b),
                                  s \div Base)

AddN(a, b) == AddC(a, b, 0)

RECURSIVE SubB(_, _, _)
SubB(a, b, br) ==
    IF a = <<>> THEN <<>>
    ELSE LET y == IF b = <<>> THEN 0 ELSE Head(b)
             d == Head(a) - y - br
         IN  <<IF d < 0 THEN d + Base ELSE d>>
                 \o SubB(Tail(a), IF b = <<>> THEN <<>> ELSE Tail(b),
                         IF d < 0 THEN 1 ELSE 0)

\* a - b for a >= b
SubN(a, b) == Norm(SubB(a, b, 0))

RECURSIVE CmpFrom(_, _, _)
CmpFrom(a, b, i) ==
    IF i = 0 THEN 0
    ELSE IF a[i] < b[i] THEN -1
    ELSE IF a[i] > b[i] THEN 1
    ELSE CmpFrom(a, b, i - 1)

\* -1, 0, 1 as a < b, a = b, a > b
CmpN(a, b) ==
    IF Len(a) < Len(b) THEN -1
    ELSE IF Len(a) > Len(b) THEN 1
    ELSE CmpFrom(a, b, Len(a))

RECURSIVE MulSmallC(_, _, _)
MulSmallC(a, d, c) ==
    IF a = <<>> THEN (IF c = 0 THEN <<>> ELSE <<c>>)
    ELSE LET t == Head(a) * d + c
         IN  <<t % Base>> \o MulSmallC(Tail(a), d, t \div Base)

\* a * d for a limb d
MulSmall(a, d) == IF d = 0 THEN <<>> ELSE MulSmallC(a, d, 0)

ShlLimbs(a, q) == IF a = <<>> THEN <<>> ELSE [i \in 1..q |-> 0] \o a

RECURSIVE MulN(_, _)
MulN(a, b) ==
    IF a = <<>> \/ b = <<>> THEN <<>>
    ELSE AddN(MulSmall(a, Head(b)), ShlLimbs(MulN(a, Tail(b)), 1))

\* a * 2^k
Shl(a, k) == MulSmall(ShlLimbs(a, k \div LimbBits), 2 ^ (k % LimbBits))

\* floor(t / 2^r) for r < LimbBits
ShrBits(t, r) ==
    Norm([i \in 1..Len(t) |->
            (t[i] \div (2 ^ r))
            + (IF i < Len(t) THEN (t[i + 1] % (2 ^ r)) * (2 ^ (LimbBits - r))
               ELSE 0)])

\* floor(a / 2^k)
Shr(a, k) ==
    IF k \div LimbBits >= Len(a) THEN <<>>
    ELSE ShrBits(SubSeq(a, k \div LimbBits + 1, Len(a)), k % LimbBits)

\* the low k bits of a are all zero
LowZero(a, k) ==
    /\ \A i \in 1..Min(k \div LimbBits, Len(a)) : a[i] = 0
    /\ k \div LimbBits + 1 <= Len(a)
          => a[k \div LimbBits + 1] % (2 ^ (k % LimbBits)) = 0

\* a with its lowest bit set
OrOne(a) ==
    IF a = <<>> THEN <<1>>
    ELSE IF a[1] % 2 = 1 THEN a
    ELSE [a EXCEPT ![1] = @ + 1]

BitLenN(a) == IF a = <<>> THEN 0 ELSE (Len(a) - 1) * LimbBits + BitLenI(a[Len(a)])

IsOddN(a) == a # <<>> /\ a[1] % 2 = 1

Pow2N(k) == Shl(<<1>>, k)

SquareN(a) == MulN(a, a)

\* a^k by repeated squaring
RECURSIVE PowN(_, _)
PowN(a, k) ==
    IF k = 0 THEN <<1>>
    ELSE IF k % 2 = 0 THEN SquareN(PowN(a, k \div 2))
    ELSE MulN(a, PowN(a, k - 1))

\* Long division by d, one bit at a time.  qr is the quotient and remainder
\* of the bits taken so far and DivBit takes the bit b; DivLimb is qr after
\* the bits from the top down to k of the limb x; DivFrom is the quotient
\* and remainder of the limbs j and above of n.
DivSub(d, q, r2) ==
    IF CmpN(r2, d) >= 0
    THEN [q |-> OrOne(Shl(q, 1)), r |-> SubN(r2, d)]
    ELSE [q |-> Shl(q, 1), r |-> r2]

DivBit(d, b, qr) == DivSub(d, qr.q, AddN(Shl(qr.r, 1), NatOf(b)))

RECURSIVE DivLimb(_, _, _, _)
DivLimb(d, x, k, qr) ==
    IF k = LimbBits THEN qr
    ELSE LET h == DivLimb(d, x, k + 1, qr)
             b == (x \div (2 ^ k)) % 2
         IN  IF h.r = <<>> /\ b = 0
             THEN [q |-> Shl(h.q, 1), r |-> <<>>]
             ELSE DivBit(d, b, h)

RECURSIVE DivFrom(_, _, _)
DivFrom(n, d, j) ==
    IF j > Len(n) THEN [q |-> <<>>, r |-> <<>>]
    ELSE LET h == DivFrom(n, d, j + 1)
         IN  IF h.r = <<>> /\ n[j] = 0
             THEN [q |-> ShlLimbs(h.q, 1), r |-> <<>>]
             ELSE DivLimb(d, n[j], 0, h)

\* [q, r] with n = q * d + r and r < d
DivModN(n, d) == DivFrom(n, d, 1)

---------------------------------------------------------------------------
(* IEEE-754 binary formats: p significand bits (hidden bit included) and   *)
(* w exponent-field bits.  impl_relative_eq! is instantiated for both.     *)

F32 == [p |-> 24, w |-> 8]
F64 == [p |-> 53, w |-> 11]

Bias(fmt) == 2 ^ (fmt.w - 1) - 1
\* the all-ones exponent field: infinities and NaNs
ExpAll(fmt) == 2 ^ fmt.w - 1

MkFloat(neg, exp, frac) == [neg |-> neg, exp |-> exp, frac |-> frac]

Zero(neg) == MkFloat(neg, 0, <<>>)
INFINITY(fmt) == MkFloat(FALSE, ExpAll(fmt), <<>>)
NEG_INFINITY(fmt) == MkFloat(TRUE, ExpAll(fmt), <<>>)
NAN(fmt) == MkFloat(FALSE, ExpAll(fmt), Pow2N(fmt.p - 2))
\* the largest finite value
MAX(fmt) == MkFloat(FALSE, ExpAll(fmt) - 1, SubN(Pow2N(fmt.p - 1), <<1>>))
\* the difference between 1.0 and the next larger value: 2^-(p-1)
EPSILON(fmt) == MkFloat(FALSE, Bias(fmt) - (fmt.p - 1), <<>>)

is_nan(fmt, x) == x.exp = ExpAll(fmt) /\ x.frac # <<>>
is_infinite(fmt, x) == x.exp = ExpAll(fmt) /\ x.frac = <<>>
is_finite(fmt, x) == x.exp # ExpAll(fmt)
IsZero(x) == x.exp = 0 /\ x.frac = <<>>

abs(x) == [x EXCEPT !.neg = FALSE]
Neg(x) == [x EXCEPT !.neg = ~x.neg]

\* A finite x is (-1)^neg * Sig * 2^(ExpOf - Bias - (p-1)).
Sig(fmt, x) == IF x.exp = 0 THEN x.frac ELSE AddN(x.frac, Pow2N(fmt.p - 1))
ExpOf(x) == IF x.exp = 0 THEN 1 ELSE x.exp

\* -1, 0, 1: the order of the magnitudes of two non-NaN values
CmpMag(x, y) ==
    IF x.exp < y.exp THEN -1
    ELSE IF x.exp > y.exp THEN 1
    ELSE CmpN(x.frac, y.frac)

\* -1, 0, 1: the order of two non-NaN values (+0 and -0 are equal)
CmpFloat(x, y) ==
    IF IsZero(x) /\ IsZero(y) THEN 0
    ELSE IF x.neg /\ ~y.neg THEN -1
    ELSE IF ~x.neg /\ y.neg THEN 1
    ELSE IF x.neg THEN CmpMag(y, x)
    ELSE CmpMag(x, y)

\* the comparison operators of the primitive types: false on NaN
FEq(fmt, x, y) == ~is_nan(fmt, x) /\ ~is_nan(fmt, y) /\ CmpFloat(x, y) = 0
FLe(fmt, x, y) == ~is_nan(fmt, x) /\ ~is_nan(fmt, y) /\ CmpFloat(x, y) <= 0
FGt(fmt, x, y) == ~is_nan(fmt, x) /\ ~is_nan(fmt, y) /\ CmpFloat(x, y) > 0

\* floor(n / 2^k), or n * 2^-k for k < 0, with the lowest bit set when a
\* nonzero bit was shifted out (the sticky bit)
ShiftSticky(n, k) ==
    IF k < 0 THEN Shl(n, -k)
    ELSE IF LowZero(n, k) THEN Shr(n, k)
    ELSE OrOne(Shr(n, k))

\* m, whose remainder r is in eighths (guard, round and sticky bit), to the
\* nearest, ties to even
RoundUp(m, r) ==
    IF r > 4 \/ (r = 4 /\ IsOddN(m)) THEN AddN(m, <<1>>) ELSE m

RoundEven(s) == RoundUp(Shr(s, 3), s[1] % 8)

\* the float of significand m (at most p bits) and exponent field e >= 1
Finish(fmt, neg, e, m) ==
    IF e >= ExpAll(fmt) THEN MkFloat(neg, ExpAll(fmt), <<>>)
    ELSE IF BitLenN(m) < fmt.p THEN MkFloat(neg, 0, m)
    ELSE MkFloat(neg, e, SubN(m, Pow2N(fmt.p - 1)))

\* the same when rounding may have carried m to 2^p
Carry(fmt, neg, e, m) ==
    IF BitLenN(m) > fmt.p THEN Finish(fmt, neg, e + 1, Shr(m, 1))
    ELSE Finish(fmt, neg, e, m)

\* n has len bits; e0 is the exponent field were the result normal.  Below
\* 1 the result is subnormal: the exponent field is 1 and more bits of n
\* fall below the significand.
PackAt(fmt, neg, n, sticky, len, e0) ==
    IF e0 >= ExpAll(fmt) THEN MkFloat(neg, ExpAll(fmt), <<>>)
    ELSE Carry(fmt, neg, Max(e0, 1),
               RoundEven(IF sticky
                         THEN OrOne(ShiftSticky(n, (len - fmt.p) + (Max(e0, 1) - e0) - 3))
                         ELSE ShiftSticky(n, (len - fmt.p) + (Max(e0, 1) - e0) - 3)))

\* The value nearest to (n + t) * 2^q, ties to even, where 0 < t < 1 if
\* sticky and t = 0 otherwise; with sticky, n has at least p+1 bits.
Pack(fmt, neg, n, q, sticky) ==
    IF n = <<>> THEN Zero(neg)
    ELSE PackAt(fmt, neg, n, sticky, BitLenN(n), q + BitLenN(n) + Bias(fmt) - 1)

\* The sum of hneg * (nh * 2^q) and lneg * ((nl + t) * 2^q), 0 < t < 1 if
\* lost and t = 0 otherwise; with lost, nh is far larger than nl.  Its sign:
SumNeg(hneg, lneg, nh, nl, lost) ==
    IF hneg = lneg \/ lost \/ CmpN(nh, nl) > 0 THEN hneg ELSE lneg

\* its magnitude in units of 2^q, less t when the signs differ
SumMag(hneg, lneg, nh, nl, lost) ==
    IF hneg = lneg THEN AddN(nh, nl)
    ELSE IF lost THEN SubN(SubN(nh, nl), <<1>>)
    ELSE IF CmpN(nh, nl) > 0 THEN SubN(nh, nl)
    ELSE SubN(nl, nh)

\* an exact sum of zero is +0.0
AddAligned(fmt, hneg, lneg, nh, nl, lost, q) ==
    IF hneg # lneg /\ ~lost /\ CmpN(nh, nl) = 0 THEN Zero(FALSE)
    ELSE Pack(fmt, SumNeg(hneg, lneg, nh, nl, lost),
              SumMag(hneg, lneg, nh, nl, lost), q, lost)

\* h + l for finite h and l, h of the larger exponent d1 + rest above l's:
\* h is shifted up by d1 <= p + 3 and l down by the rest
AddShifted(fmt, h, l, d1, rest) ==
    AddAligned(fmt, h.neg, l.neg, Shl(Sig(fmt, h), d1), Shr(Sig(fmt, l), rest),
               ~LowZero(Sig(fmt, l), rest),
               ExpOf(h) - d1 - Bias(fmt) - (fmt.p - 1))

AddFinite(fmt, h, l) ==
    AddShifted(fmt, h, l, Min(ExpOf(h) - ExpOf(l), fmt.p + 3),
               ExpOf(h) - ExpOf(l) - Min(ExpOf(h) - ExpOf(l), fmt.p + 3))

\* x + y
FAdd(fmt, x, y) ==
    IF is_nan(fmt, x) \/ is_nan(fmt, y) THEN NAN(fmt)
    ELSE IF is_infinite(fmt, x)
         THEN (IF is_infinite(fmt, y) /\ x.neg # y.neg THEN NAN(fmt) ELSE x)
    ELSE IF is_infinite(fmt, y) THEN y
    ELSE AddFinite(fmt, IF ExpOf(x) < ExpOf(y) THEN y ELSE x,
                   IF ExpOf(x) < ExpOf(y) THEN x ELSE y)

\* x - y
FSub(fmt, x, y) == FAdd(fmt, x, Neg(y))

\* x * y
FMul(fmt, x, y) ==
    IF is_nan(fmt, x) \/ is_nan(fmt, y) THEN NAN(fmt)
    ELSE IF is_infinite(fmt, x) \/ is_infinite(fmt, y)
         THEN (IF IsZero(x) \/ IsZero(y) THEN NAN(fmt)
               ELSE MkFloat(x.neg # y.neg, ExpAll(fmt), <<>>))
    ELSE Pack(fmt, x.neg # y.neg, MulN(Sig(fmt, x), Sig(fmt, y)),
              ExpOf(x) + ExpOf(y) - 2 * Bias(fmt) - 2 * (fmt.p - 1), FALSE)

\* A decimal literal digits * 10^e10 (the sign in front), converted as the
\* compiler converts it: to the nearest value of the type.
RECURSIVE DigitsN(_, _)
DigitsN(digits, acc) ==
    IF digits = <<>> THEN acc
    ELSE DigitsN(Tail(digits), AddN(MulSmall(acc, 10), NatOf(Head(digits))))

\* m / dd from the quotient of m * 2^s by dd
LitQuotient(fmt, neg, s, qr) == Pack(fmt, neg, qr.q, -s, qr.r # <<>>)

LitShifted(fmt, neg, m, dd, s) == LitQuotient(fmt, neg, s, DivModN(Shl(m, s), dd))

\* m / dd: the quotient is taken to at least p + 3 bits
LitRatio(fmt, neg, m, dd) ==
    LitShifted(fmt, neg, m, dd, Max(0, fmt.p + 3 + BitLenN(dd) - BitLenN(m)))

LitNat(fmt, neg, m, e10) ==
    IF e10 >= 0 THEN Pack(fmt, neg, MulN(m, PowN(<<10>>, e10)), 0, FALSE)
    ELSE LitRatio(fmt, neg, m, PowN(<<10>>, -e10))

Lit(fmt, neg, digits, e10) == LitNat(fmt, neg, DigitsN(digits, <<>>), e10)

---------------------------------------------------------------------------
(* RelativeEq for the primitive types: impl_relative_eq!($T, $U).          *)

default_max_relative(fmt) == EPSILON(fmt)

\* largest with the comparison the wrong way round: the smaller magnitude
smallest(fmt, abs_self, abs_other) ==
    IF FGt(fmt, abs_other, abs_self) THEN abs_self ELSE abs_other

\* largest without the comparison: the magnitude of self
largest_self(fmt, abs_self, abs_other) == abs_self

\* the larger of the two magnitudes, as the code picks it
largest(fmt, abs_self, abs_other) ==
    IF FGt(fmt, abs_other, abs_self) THEN abs_other ELSE abs_self

\* relative_eq without the equality shortcut
relative_eq_no_shortcut(fmt, self, other, epsilon, max_relative) ==
    IF is_infinite(fmt, self) \/ is_infinite(fmt, other) THEN FALSE
    ELSE LET abs_diff == abs(FSub(fmt, self, other))
         IN  IF FLe(fmt, abs_diff, epsilon) THEN TRUE
             ELSE FLe(fmt, abs_diff,
                      FMul(fmt, largest(fmt, abs(self), abs(other)), max_relative))

\* relative_eq with the tests written as "not greater than"
relative_eq_not_greater(fmt, self, other, epsilon, max_relative) ==
    IF FEq(fmt, self, other) THEN TRUE
    ELSE IF is_infinite(fmt, self) \/ is_infinite(fmt, other) THEN FALSE
    ELSE LET abs_diff == abs(FSub(fmt, self, other))
         IN  IF ~FGt(fmt, abs_diff, epsilon) THEN TRUE
             ELSE ~FGt(fmt, abs_diff,
                       FMul(fmt, largest(fmt, abs(self), abs(other)), max_relative))

\* relative_eq without the test for infinite operands
relative_eq_no_infinite(fmt, self, other, epsilon, max_relative) ==
    IF FEq(fmt, self, other) THEN TRUE
    ELSE LET abs_diff == abs(FSub(fmt, self, other))
         IN  IF FLe(fmt, abs_diff, epsilon) THEN TRUE
             ELSE FLe(fmt, abs_diff,
                      FMul(fmt, largest(fmt, abs(self), abs(other)), max_relative))

\* relative_eq without the absolute test
relative_eq_no_absolute(fmt, self, other, epsilon, max_relative) ==
    IF FEq(fmt, self, other) THEN TRUE
    ELSE IF is_infinite(fmt, self) \/ is_infinite(fmt, other) THEN FALSE
    ELSE FLe(fmt, abs(FSub(fmt, self, other)),
             FMul(fmt, largest(fmt, abs(self), abs(other)), max_relative))

\* relative_eq with the relative test scaled by epsilon
relative_eq_epsilon_scaled(fmt, self, other, epsilon, max_relative) ==
    IF FEq(fmt, self, other) THEN TRUE
    ELSE IF is_infinite(fmt, self) \/ is_infinite(fmt, other) THEN FALSE
    ELSE LET abs_diff == abs(FSub(fmt, self, other))
         IN  IF FLe(fmt, abs_diff, epsilon) THEN TRUE
             ELSE FLe(fmt, abs_diff,
                      FMul(fmt, largest(fmt, abs(self), abs(other)), epsilon))

\* relative_eq with the absolute test the wrong way round
relative_eq_reversed_absolute(fmt, self, other, epsilon, max_relative) ==
    IF FEq(fmt, self, other) THEN TRUE
    ELSE IF is_infinite(fmt, self) \/ is_infinite(fmt, other) THEN FALSE
    ELSE LET abs_diff == abs(FSub(fmt, self, other))
         IN  IF FLe(fmt, epsilon, abs_diff) THEN TRUE
             ELSE FLe(fmt, abs_diff,
                      FMul(fmt, largest(fmt, abs(self), abs(other)), max_relative))

relative_eq(fmt, self, other, epsilon, max_relative) ==
    \* Handle same infinities
    IF FEq(fmt, self, other) THEN TRUE
    \* Handle remaining infinities
    ELSE IF is_infinite(fmt, self) \/ is_infinite(fmt, other) THEN FALSE
    ELSE LET abs_diff == abs(FSub(fmt, self, other))
         IN  \* For when the numbers are really close together
             IF FLe(fmt, abs_diff, epsilon) THEN TRUE
             \* Use a relative difference comparison
             ELSE FLe(fmt, abs_diff,
                      FMul(fmt, largest(fmt, abs(self), abs(other)), max_relative))

---------------------------------------------------------------------------
(* RelativeEq<[B]> for [A].                                                *)

\* Iterator::zip(self.iter(), other).all(..): the pairs up to the shorter
\* length
zip_all(fmt, self, other, epsilon, max_relative) ==
    \A i \in 1..Min(Len(self), Len(other)) :
        relative_eq(fmt, self[i], other[i], epsilon, max_relative)

\* the slice comparison without the test of the lengths
slice_relative_eq_zip_only(fmt, self, other, epsilon, max_relative) ==
    zip_all(fmt, self, other, epsilon, max_relative)


slice_relative_eq(fmt, self, other, epsilon, max_relative) ==
    Len(self) = Len(other) /\ zip_all(fmt, self, other, epsilon, max_relative)

---------------------------------------------------------------------------
(* RelativeEq for cell::Cell<T> and cell::RefCell<T>.  A cell is           *)
(* [value, borrow]; borrow is the RefCell's borrow flag: 0 unused, n > 0   *)
(* shared by n readers, -1 held by a writer.  A Cell has no flag in use.   *)
(* A call's outcome is [ret, cells]: what it returns ("true", "false", or   *)
(* "panic" when it panics instead) and the cells as it leaves them.        *)

Returns(b) == IF b THEN "true" ELSE "false"

is_writing(flag) == flag < 0

\* Cell::get
get(cells, i) == cells[i].value

\* RefCell::borrow succeeds unless a writer holds the cell
can_borrow(cells, i) == ~is_writing(cells[i].borrow)
\* the cells once RefCell::borrow has handed out a Ref
borrow(cells, i) == [cells EXCEPT ![i].borrow = @ + 1]
\* a Ref whose drop does not give the borrow back
drop_ref_leaked(cells, i) == cells

\* the cells once a Ref is dropped
drop_ref(cells, i) == [cells EXCEPT ![i].borrow = @ - 1]


cell_relative_eq(fmt, cells, self, other, epsilon, max_relative) ==
    [ret |-> Returns(relative_eq(fmt, get(cells, self), get(cells, other),
                                 epsilon, max_relative)),
     cells |-> cells]

\* the RefCell comparison reading the values without borrowing
refcell_relative_eq_unguarded(fmt, cells, self, other, epsilon, max_relative) ==
    [ret |-> Returns(relative_eq(fmt, cells[self].value, cells[other].value,
                                 epsilon, max_relative)),
     cells |-> cells]

\* T::relative_eq(&self.borrow(), &other.borrow(), epsilon, max_relative):
\* self is borrowed, then other; the two Refs live until the call has
\* returned and are dropped in reverse order; a panic in other.borrow()
\* unwinds through the drop of self's Ref.
refcell_relative_eq(fmt, cells, self, other, epsilon, max_relative) ==
    IF ~can_borrow(cells, self) THEN [ret |-> "panic", cells |-> cells]
    ELSE LET c1 == borrow(cells, self)
         IN  IF ~can_borrow(c1, other)
             THEN [ret |-> "panic", cells |-> drop_ref(c1, self)]
             ELSE LET c2 == borrow(c1, other)
                  IN  [ret |-> Returns(relative_eq(fmt, c2[self].value,
                                                   c2[other].value,
                                                   epsilon, max_relative)),
                       cells |-> drop_ref(drop_ref(c2, other), self)]

---------------------------------------------------------------------------
(* The forwarding implementations: RelativeEq for &T, &mut T, NotNan<T>    *)
(* and OrderedFloat<T>, and RelativeEq<T> for NotNan<T> and                *)
(* OrderedFloat<T>.  A reference or a wrapper is [kind, inner]: the kind   *)
(* of the reference or wrapper and the value of T behind or inside it.     *)
(* There is no RelativeEq<NotNan<T>> or RelativeEq<OrderedFloat<T>> for T: *)
(* with a primitive on the left the only implementation of the primitive   *)
(* is selected, and the reference to the wrapper on the right coerces to a *)
(* reference to the primitive through the wrapper's Deref.                 *)

Wrap(kind, x) == [kind |-> kind, inner |-> x]

\* *self of a reference
deref(r) == r.inner
\* NotNan::into_inner, OrderedFloat::into_inner
into_inner(w) == w.inner

\* <&T as RelativeEq>::default_max_relative
ref_default_max_relative(fmt) == default_max_relative(fmt)
\* <&mut T as RelativeEq>::default_max_relative
ref_mut_default_max_relative(fmt) == default_max_relative(fmt)
\* <Cell<T> as RelativeEq>::default_max_relative
cell_default_max_relative(fmt) == default_max_relative(fmt)
\* <NotNan<T> as RelativeEq>::default_max_relative
notnan_default_max_relative(fmt) == default_max_relative(fmt)
\* <OrderedFloat<T> as RelativeEq>::default_max_relative
ordered_default_max_relative(fmt) == default_max_relative(fmt)

\* <NotNan<T> as Deref>::deref, <OrderedFloat<T> as Deref>::deref
wrapper_deref(w) == w.inner

\* the comparison of two references that compares self with itself
ref_relative_eq_self(fmt, self, other, epsilon, max_relative) ==
    relative_eq(fmt, deref(self), deref(self), epsilon, max_relative)

\* T::relative_eq(*self, *other, epsilon, max_relative)
ref_relative_eq(fmt, self, other, epsilon, max_relative) ==
    relative_eq(fmt, deref(self), deref(other), epsilon, max_relative)

\* T::relative_eq(*self, *other, epsilon, max_relative) of &mut T
ref_mut_relative_eq(fmt, self, other, epsilon, max_relative) ==
    relative_eq(fmt, deref(self), deref(other), epsilon, max_relative)

\* T::relative_eq(&self.into_inner(), &other.into_inner(), ..) of NotNan<T>
notnan_relative_eq(fmt, self, other, epsilon, max_relative) ==
    relative_eq(fmt, into_inner(self), into_inner(other), epsilon, max_relative)

\* T::relative_eq(&self.into_inner(), other, ..): NotNan<T> against T
notnan_prim_relative_eq(fmt, self, other, epsilon, max_relative) ==
    relative_eq(fmt, into_inner(self), other, epsilon, max_relative)

\* T::relative_eq(&self.into_inner(), &other.into_inner(), ..) of
\* OrderedFloat<T>
ordered_relative_eq(fmt, self, other, epsilon, max_relative) ==
    relative_eq(fmt, into_inner(self), into_inner(other), epsilon, max_relative)

\* OrderedFloat<T> against T with the two tolerances exchanged
ordered_prim_relative_eq_exchanged(fmt, self, other, epsilon, max_relative) ==
    relative_eq(fmt, into_inner(self), other, max_relative, epsilon)

\* T::relative_eq(&self.into_inner(), other, ..): OrderedFloat<T> against T
ordered_prim_relative_eq(fmt, self, other, epsilon, max_relative) ==
    relative_eq(fmt, into_inner(self), other, epsilon, max_relative)

\* T against NotNan<T>: the primitive's relative_eq on self and on the
\* primitive the NotNan derefs to
prim_notnan_relative_eq(fmt, self, other, epsilon, max_relative) ==
    relative_eq(fmt, self, wrapper_deref(other), epsilon, max_relative)

\* T against OrderedFloat<T>: the primitive's relative_eq on self and on the
\* primitive the OrderedFloat derefs to
prim_ordered_relative_eq(fmt, self, other, epsilon, max_relative) ==
    relative_eq(fmt, self, wrapper_deref(other), epsilon, max_relative)

---------------------------------------------------------------------------
(* The state: one comparison set up by a caller.  ty is the primitive type *)
(* underneath, shape the implementing type of the operands, lhs and rhs    *)
(* the operands (values, slices, the ids of two cells, references or       *)
(* wrappers), cells the caller's Cells / RefCells, eq_ret and ne_ret what  *)
(* relative_eq and relative_ne returned on these operands ("none": not     *)
(* called yet).                                                            *)

VARIABLES ty, shape, lhs, rhs, epsilon, max_relative, cells, eq_ret, ne_ret

vars == <<ty, shape, lhs, rhs, epsilon, max_relative, cells, eq_ret, ne_ret>>

Fmt(t) == IF t = "f32" THEN F32 ELSE F64

\* the pairs of operand types (Self first, Rhs second) that select a
\* forwarding implementation, and the pairs of a primitive type with its
\* wrapper on the right
ForwardingShapes == {"ref", "ref_mut", "notnan", "ordered"}
WrapperLeftShapes == {"notnan_prim", "ordered_prim"}
WrapperRightShapes == {"prim_notnan", "prim_ordered"}

\* the implementation the operands' type selects
dispatch_relative_eq(sh, fmt, cs, self, other, eps, max_rel) ==
    CASE sh = "prim" ->
            [ret |-> Returns(relative_eq(fmt, self, other, eps, max_rel)),
             cells |-> cs]
      [] sh = "slice" ->
            [ret |-> Returns(slice_relative_eq(fmt, self, other, eps, max_rel)),
             cells |-> cs]
      [] sh = "cell" -> cell_relative_eq(fmt, cs, self, other, eps, max_rel)
      [] sh = "refcell" -> refcell_relative_eq(fmt, cs, self, other, eps, max_rel)
      [] sh = "ref" ->
            [ret |-> Returns(ref_relative_eq(fmt, self, other, eps, max_rel)),
             cells |-> cs]
      [] sh = "ref_mut" ->
            [ret |-> Returns(ref_mut_relative_eq(fmt, self, other, eps, max_rel)),
             cells |-> cs]
      [] sh = "notnan" ->
            [ret |-> Returns(notnan_relative_eq(fmt, self, other, eps, max_rel)),
             cells |-> cs]
      [] sh = "notnan_prim" ->
            [ret |-> Returns(notnan_prim_relative_eq(fmt, self, other, eps, max_rel)),
             cells |-> cs]
      [] sh = "ordered" ->
            [ret |-> Returns(ordered_relative_eq(fmt, self, other, eps, max_rel)),
             cells |-> cs]
      [] sh = "ordered_prim" ->
            [ret |-> Returns(ordered_prim_relative_eq(fmt, self, other, eps, max_rel)),
             cells |-> cs]
      [] sh = "prim_notnan" ->
            [ret |-> Returns(prim_notnan_relative_eq(fmt, self, other, eps, max_rel)),
             cells |-> cs]
      [] sh = "prim_ordered" ->
            [ret |-> Returns(prim_ordered_relative_eq(fmt, self, other, eps, max_rel)),
             cells |-> cs]

\* default_max_relative of the implementation the operands' type selects
dispatch_default_max_relative(sh, fmt) ==
    CASE sh = "ref" -> ref_default_max_relative(fmt)
      [] sh = "ref_mut" -> ref_mut_default_max_relative(fmt)
      [] sh = "cell" -> cell_default_max_relative(fmt)
      [] sh \in {"notnan", "notnan_prim"} -> notnan_default_max_relative(fmt)
      [] sh \in {"ordered", "ordered_prim"} -> ordered_default_max_relative(fmt)
      [] OTHER -> default_max_relative(fmt)

\* relative_ne without the negation
relative_ne_unnegated(sh, fmt, cs, self, other, eps, max_rel) ==
    dispatch_relative_eq(sh, fmt, cs, self, other, eps, max_rel)

\* The inverse of relative_eq: the trait's provided method, which no
\* implementation overrides.
Negated(out) ==
    IF out.ret = "panic" THEN out
    ELSE [ret |-> Returns(~(out.ret = "true")), cells |-> out.cells]

relative_ne(sh, fmt, cs, self, other, eps, max_rel) ==
    Negated(dispatch_relative_eq(sh, fmt, cs, self, other, eps, max_rel))

---------------------------------------------------------------------------
(* The operands and tolerances the callers pass.                           *)

Types == {"f32", "f64"}

\* The literals the callers write.  The compiler converts each to the type
\* it is written in: f32 or f64.

\* 1.0
One32 == Lit(F32, FALSE, <<1>>, 0)
One64 == Lit(F64, FALSE, <<1>>, 0)
One(fmt) == IF fmt = F32 THEN One32 ELSE One64

\* 2.0
Two32 == Lit(F32, FALSE, <<2>>, 0)
Two64 == Lit(F64, FALSE, <<2>>, 0)
Two(fmt) == IF fmt = F32 THEN Two32 ELSE Two64

\* 3.0
Three32 == Lit(F32, FALSE, <<3>>, 0)
Three64 == Lit(F64, FALSE, <<3>>, 0)
Three(fmt) == IF fmt = F32 THEN Three32 ELSE Three64

\* 1.5
OneAndHalf32 == Lit(F32, FALSE, <<1, 5>>, -1)
OneAndHalf64 == Lit(F64, FALSE, <<1, 5>>, -1)
OneAndHalf(fmt) == IF fmt = F32 THEN OneAndHalf32 ELSE OneAndHalf64

\* 10000.0
TenThousand32 == Lit(F32, FALSE, <<1, 0, 0, 0, 0>>, 0)
TenThousand64 == Lit(F64, FALSE, <<1, 0, 0, 0, 0>>, 0)
TenThousand(fmt) == IF fmt = F32 THEN TenThousand32 ELSE TenThousand64

\* 10001.0
TenThousandOne32 == Lit(F32, FALSE, <<1, 0, 0, 0, 1>>, 0)
TenThousandOne64 == Lit(F64, FALSE, <<1, 0, 0, 0, 1>>, 0)
TenThousandOne(fmt) == IF fmt = F32 THEN TenThousandOne32 ELSE TenThousandOne64

\* 100000000.0
Big32 == Lit(F32, FALSE, <<1, 0, 0, 0, 0, 0, 0, 0, 0>>, 0)
Big64 == Lit(F64, FALSE, <<1, 0, 0, 0, 0, 0, 0, 0, 0>>, 0)
Big(fmt) == IF fmt = F32 THEN Big32 ELSE Big64

\* 100000001.0
BigPlusOne32 == Lit(F32, FALSE, <<1, 0, 0, 0, 0, 0, 0, 0, 1>>, 0)
BigPlusOne64 == Lit(F64, FALSE, <<1, 0, 0, 0, 0, 0, 0, 0, 1>>, 0)
BigPlusOne(fmt) == IF fmt = F32 THEN BigPlusOne32 ELSE BigPlusOne64

\* 1e-40
Tiny32 == Lit(F32, FALSE, <<1>>, -40)
Tiny64 == Lit(F64, FALSE, <<1>>, -40)
Tiny(fmt) == IF fmt = F32 THEN Tiny32 ELSE Tiny64

\* 1e-41
Tinier32 == Lit(F32, FALSE, <<1>>, -41)
Tinier64 == Lit(F64, FALSE, <<1>>, -41)
Tinier(fmt) == IF fmt = F32 THEN Tinier32 ELSE Tinier64

\* 0.34
Rel3432 == Lit(F32, FALSE, <<3, 4>>, -2)
Rel3464 == Lit(F64, FALSE, <<3, 4>>, -2)
Rel34(fmt) == IF fmt = F32 THEN Rel3432 ELSE Rel3464

\* 0.33
Rel3332 == Lit(F32, FALSE, <<3, 3>>, -2)
Rel3364 == Lit(F64, FALSE, <<3, 3>>, -2)
Rel33(fmt) == IF fmt = F32 THEN Rel3332 ELSE Rel3364

\* AbsDiffEq::default_epsilon of the primitive types
default_epsilon(fmt) == EPSILON(fmt)

Values(fmt) ==
    { Zero(FALSE), Zero(TRUE), One(fmt), OneAndHalf(fmt), Two(fmt),
      TenThousand(fmt), TenThousandOne(fmt), Big(fmt), BigPlusOne(fmt),
      Tiny(fmt), Neg(Tiny(fmt)), MAX(fmt), Neg(MAX(fmt)),
      INFINITY(fmt), NEG_INFINITY(fmt), NAN(fmt) }

EpsilonValues(fmt) ==
    { Zero(FALSE), Tinier(fmt), Tiny(fmt), default_epsilon(fmt), One(fmt),
      INFINITY(fmt), NAN(fmt) }

MaxRelativeValues(fmt) ==
    { Zero(FALSE), default_max_relative(fmt), Rel33(fmt), Rel34(fmt),
      INFINITY(fmt), NAN(fmt) }

\* the longest slice
MaxLen == 3

Elements(fmt) == { One(fmt), Two(fmt), Three(fmt) }
Slices(fmt) == UNION { [1..n -> Elements(fmt)] : n \in 0..MaxLen }
\* <<epsilon, max_relative>>: the defaults, an absolute tolerance of 1, and
\* an unbounded relative tolerance
SliceTolerances(fmt) ==
    { <<default_epsilon(fmt), default_max_relative(fmt)>>,
      <<One(fmt), Zero(FALSE)>>,
      <<Zero(FALSE), INFINITY(fmt)>> }

CellIds == {1, 2}
\* the Refs a caller holds on one RefCell besides the comparison's own
MaxBorrows == 2
CellValues(fmt) == { One(fmt), OneAndHalf(fmt), NAN(fmt) }
CellEpsilonValues(fmt) == { Zero(FALSE), One(fmt) }
CellMaxRelativeValues(fmt) == { Zero(FALSE), Rel34(fmt) }

NoCells == <<>>

\* the values behind the references and inside the wrappers; a NotNan
\* holds no NaN
WrapValues(fmt) ==
    { Zero(FALSE), One(fmt), OneAndHalf(fmt), Two(fmt), INFINITY(fmt), NAN(fmt) }
WrapTolerances(fmt) ==
    { <<default_epsilon(fmt), default_max_relative(fmt)>>,
      <<Zero(FALSE), Zero(FALSE)>>,
      <<Zero(FALSE), Rel34(fmt)>>,
      <<One(fmt), Zero(FALSE)>> }

\* the kind of the left and of the right operand of each pair of types
LeftKind(sh) ==
    CASE sh = "ref" -> "&"
      [] sh = "ref_mut" -> "&mut"
      [] sh \in {"notnan", "notnan_prim"} -> "NotNan"
      [] sh \in {"ordered", "ordered_prim"} -> "OrderedFloat"
      [] OTHER -> "prim"
RightKind(sh) ==
    CASE sh = "ref" -> "&"
      [] sh = "ref_mut" -> "&mut"
      [] sh \in {"notnan", "prim_notnan"} -> "NotNan"
      [] sh \in {"ordered", "prim_ordered"} -> "OrderedFloat"
      [] OTHER -> "prim"

\* the operands of a kind: NotNan::new refuses a NaN
Operands(kind, fmt) ==
    IF kind = "prim" THEN WrapValues(fmt)
    ELSE IF kind = "NotNan"
         THEN { Wrap(kind, x) : x \in WrapValues(fmt) \ {NAN(fmt)} }
         ELSE { Wrap(kind, x) : x \in WrapValues(fmt) }

---------------------------------------------------------------------------
(* Initial states: the operands are in place and nothing has been called.  *)
(* A Cell or RefCell is as Cell::new / RefCell::new leaves it: unborrowed. *)

InitPrim ==
    /\ shape = "prim"
    /\ ty \in Types
    /\ lhs \in Values(Fmt(ty))
    /\ rhs \in Values(Fmt(ty))
    /\ epsilon \in EpsilonValues(Fmt(ty))
    /\ max_relative \in MaxRelativeValues(Fmt(ty))
    /\ cells = NoCells
    /\ eq_ret = "none"
    /\ ne_ret = "none"

InitSlice ==
    /\ shape = "slice"
    /\ ty \in Types
    /\ lhs \in Slices(Fmt(ty))
    /\ rhs \in Slices(Fmt(ty))
    /\ \E t \in SliceTolerances(Fmt(ty)) : epsilon = t[1] /\ max_relative = t[2]
    /\ cells = NoCells
    /\ eq_ret = "none"
    /\ ne_ret = "none"

InitCells ==
    /\ shape \in {"cell", "refcell"}
    /\ ty \in Types
    /\ lhs \in CellIds
    /\ rhs \in CellIds
    /\ epsilon \in CellEpsilonValues(Fmt(ty))
    /\ max_relative \in CellMaxRelativeValues(Fmt(ty))
    /\ cells \in [CellIds -> [value : CellValues(Fmt(ty)), borrow : {0}]]
    /\ eq_ret = "none"
    /\ ne_ret = "none"

Init == InitPrim \/ InitSlice \/ InitCells

\* references and wrappers, and a wrapper against its primitive type
InitWrap ==
    /\ shape \in ForwardingShapes \cup WrapperLeftShapes \cup WrapperRightShapes
    /\ ty \in Types
    /\ lhs \in Operands(LeftKind(shape), Fmt(ty))
    /\ rhs \in Operands(RightKind(shape), Fmt(ty))
    /\ \E t \in WrapTolerances(Fmt(ty)) : epsilon = t[1] /\ max_relative = t[2]
    /\ cells = NoCells
    /\ eq_ret = "none"
    /\ ne_ret = "none"

\* the single-owner cells
InitCell == InitCells /\ shape = "cell"

\* a panic ends the caller
Running == eq_ret # "panic" /\ ne_ret # "panic"

---------------------------------------------------------------------------
(* The calls.                                                              *)

EqReturns(out) == eq_ret' = out.ret /\ cells' = out.cells
NeReturns(out) == ne_ret' = out.ret /\ cells' = out.cells

CallRelativeEq ==
    /\ Running
    /\ eq_ret = "none"
    /\ EqReturns(dispatch_relative_eq(shape, Fmt(ty), cells, lhs, rhs,
                                      epsilon, max_relative))
    /\ UNCHANGED <<ty, shape, lhs, rhs, epsilon, max_relative, ne_ret>>

CallRelativeNe ==
    /\ Running
    /\ ne_ret = "none"
    /\ NeReturns(relative_ne(shape, Fmt(ty), cells, lhs, rhs,
                              epsilon, max_relative))
    /\ UNCHANGED <<ty, shape, lhs, rhs, epsilon, max_relative, eq_ret>>

---------------------------------------------------------------------------
(* What the caller does to its cells between comparisons.  The results of  *)
(* earlier comparisons are of the cells as they were: they are forgotten.  *)

Forget == eq_ret' = "none" /\ ne_ret' = "none"

\* the caller takes a Ref
TakeRef(i) ==
    /\ Running
    /\ shape = "refcell"
    /\ cells[i].borrow >= 0
    /\ cells[i].borrow < MaxBorrows
    /\ cells' = borrow(cells, i)
    /\ Forget
    /\ UNCHANGED <<ty, shape, lhs, rhs, epsilon, max_relative>>

\* the caller drops a Ref
DropRef(i) ==
    /\ Running
    /\ shape = "refcell"
    /\ cells[i].borrow > 0
    /\ cells' = drop_ref(cells, i)
    /\ Forget
    /\ UNCHANGED <<ty, shape, lhs, rhs, epsilon, max_relative>>

\* the caller takes the RefMut: only an unused cell grants it
TakeRefMut(i) ==
    /\ Running
    /\ shape = "refcell"
    /\ cells[i].borrow = 0
    /\ cells' = [cells EXCEPT ![i].borrow = -1]
    /\ Forget
    /\ UNCHANGED <<ty, shape, lhs, rhs, epsilon, max_relative>>

\* the caller writes through its RefMut
WriteRefMut(i, v) ==
    /\ Running
    /\ shape = "refcell"
    /\ cells[i].borrow = -1
    /\ cells[i].value # v
    /\ cells' = [cells EXCEPT ![i].value = v]
    /\ Forget
    /\ UNCHANGED <<ty, shape, lhs, rhs, epsilon, max_relative>>

\* the caller drops its RefMut
DropRefMut(i) ==
    /\ Running
    /\ shape = "refcell"
    /\ cells[i].borrow = -1
    /\ cells' = [cells EXCEPT ![i].borrow = 0]
    /\ Forget
    /\ UNCHANGED <<ty, shape, lhs, rhs, epsilon, max_relative>>

\* Cell::set
CellSet(i, v) ==
    /\ Running
    /\ shape = "cell"
    /\ cells[i].value # v
    /\ cells' = [cells EXCEPT ![i].value = v]
    /\ Forget
    /\ UNCHANGED <<ty, shape, lhs, rhs, epsilon, max_relative>>

Calls == CallRelativeEq \/ CallRelativeNe

CellSteps ==
    \E i \in CellIds :
        \/ TakeRef(i)
        \/ DropRef(i)
        \/ TakeRefMut(i)
        \/ DropRefMut(i)
        \/ \E v \in CellValues(Fmt(ty)) : WriteRefMut(i, v) \/ CellSet(i, v)

Next == Calls \/ CellSteps

CellSets == \E i \in CellIds : \E v \in CellValues(Fmt(ty)) : CellSet(i, v)

\* every implementation
Spec == Init /\ [][Next]_vars
\* the primitive types alone
SpecPrim == InitPrim /\ [][Calls]_vars
\* slices of the primitive types
SpecSlice == InitSlice /\ [][Calls]_vars
\* Cells and RefCells of the primitive types
SpecCells == InitCells /\ [][Next]_vars
\* references, Cells and wrappers of the primitive types
SpecWrap == (InitWrap \/ InitCell) /\ [][Calls \/ CellSets]_vars

---------------------------------------------------------------------------
(* The properties checked.                                                 *)

Returned(ret) == ret \in {"true", "false"}

\* relative_eq of a primitive type has been called on lhs and rhs
PrimCalled == shape = "prim" /\ eq_ret # "none"

\* a == b of the primitive types, by cases
NativeEq(fmt, a, b) ==
    /\ ~is_nan(fmt, a)
    /\ ~is_nan(fmt, b)
    /\ a = b \/ (IsZero(a) /\ IsZero(b))

NonNegative(fmt, x) == ~is_nan(fmt, x) /\ (~x.neg \/ IsZero(x))

BothFinite == is_finite(Fmt(ty), lhs) /\ is_finite(Fmt(ty), rhs)

\* |lhs - rhs| and max(|lhs|, |rhs|) in the arithmetic of the type
AbsDiff == abs(FSub(Fmt(ty), lhs, rhs))
MaxAbs == IF FLe(Fmt(ty), abs(lhs), abs(rhs)) THEN abs(rhs) ELSE abs(lhs)

Defaults ==
    /\ epsilon = default_epsilon(Fmt(ty))
    /\ max_relative = default_max_relative(Fmt(ty))

\* C1: whenever relative_eq and relative_ne have both been called on the
\* same arguments (of a primitive type, slices, Cells or RefCells), both
\* returned and relative_ne returned the negation of what relative_eq
\* returned.
C1_NegationDuality ==
    (eq_ret # "none" /\ ne_ret # "none")
        => /\ Returned(eq_ret)
           /\ Returned(ne_ret)
           /\ (ne_ret = "true") <=> (eq_ret = "false")

C1_Witness == shape = "refcell" /\ eq_ret = "true" /\ ne_ret = "false"

\* C2: with nonnegative epsilon and max_relative (both 0 included),
\* relative_eq of a primitive type returns true on operands that are equal
\* under ==: a non-NaN value and itself (an infinity included), +0.0 and
\* -0.0 in either order.
C2_EqualOperands ==
    (/\ PrimCalled
     /\ NonNegative(Fmt(ty), epsilon)
     /\ NonNegative(Fmt(ty), max_relative)
     /\ NativeEq(Fmt(ty), lhs, rhs))
        => eq_ret = "true"

C2_Witness ==
    /\ PrimCalled
    /\ lhs = Zero(FALSE)
    /\ rhs = Zero(TRUE)
    /\ epsilon = Zero(FALSE)
    /\ max_relative = Zero(FALSE)
    /\ eq_ret = "true"

\* C3: relative_eq of a primitive type returns false when either operand
\* is NaN, whatever the other operand and the tolerances.
C3_NanExclusion ==
    (PrimCalled /\ (is_nan(Fmt(ty), lhs) \/ is_nan(Fmt(ty), rhs)))
        => eq_ret = "false"

C3_Witness ==
    /\ PrimCalled
    /\ lhs = One(Fmt(ty))
    /\ rhs = NAN(Fmt(ty))
    /\ epsilon = INFINITY(Fmt(ty))
    /\ max_relative = INFINITY(Fmt(ty))
    /\ eq_ret = "false"

\* C4: when an operand is infinite, relative_eq of a primitive type
\* returns true if both operands are the same infinity and false
\* otherwise, whatever the tolerances.
C4_Infinities ==
    (PrimCalled /\ (is_infinite(Fmt(ty), lhs) \/ is_infinite(Fmt(ty), rhs)))
        => eq_ret = Returns(lhs = rhs)

C4_Witness ==
    /\ PrimCalled
    /\ lhs = One(Fmt(ty))
    /\ rhs = NEG_INFINITY(Fmt(ty))
    /\ epsilon = INFINITY(Fmt(ty))
    /\ max_relative = INFINITY(Fmt(ty))
    /\ eq_ret = "false"

\* C5: for finite operands with |lhs - rhs| <= epsilon, relative_eq of a
\* primitive type returns true whatever max_relative is; so it does on
\* 1e-40 or -1e-40 and 0.0, in either order, with epsilon = 1e-40 and
\* max_relative = 0.
C5_AbsoluteTolerance ==
    (PrimCalled /\ BothFinite /\ FLe(Fmt(ty), AbsDiff, epsilon))
        => eq_ret = "true"

C5_Witness ==
    /\ PrimCalled
    /\ ty = "f32"
    /\ lhs = Zero(FALSE)
    /\ rhs = Neg(Tiny(Fmt(ty)))
    /\ epsilon = Tiny(Fmt(ty))
    /\ max_relative = Zero(FALSE)
    /\ eq_ret = "true"

\* finite operands that differ by more than epsilon
BeyondEpsilon ==
    /\ BothFinite
    /\ ~NativeEq(Fmt(ty), lhs, rhs)
    /\ FGt(Fmt(ty), AbsDiff, epsilon)

\* on them the result is that of the relative test
RelativeTest ==
    BeyondEpsilon
        => eq_ret = Returns(FLe(Fmt(ty), AbsDiff,
                                FMul(Fmt(ty), MaxAbs, max_relative)))

\* the examples that hold of both types
ScalingExamples ==
    /\ (Defaults /\ lhs = TenThousand(Fmt(ty)) /\ rhs = TenThousandOne(Fmt(ty)))
          => eq_ret = "false"
    /\ (/\ epsilon = default_epsilon(Fmt(ty))
        /\ lhs = One(Fmt(ty))
        /\ rhs = OneAndHalf(Fmt(ty))
        /\ max_relative = Rel34(Fmt(ty)))
          => eq_ret = "true"
    /\ (/\ epsilon = default_epsilon(Fmt(ty))
        /\ lhs = One(Fmt(ty))
        /\ rhs = OneAndHalf(Fmt(ty))
        /\ max_relative = Rel33(Fmt(ty)))
          => eq_ret = "false"
    /\ (BeyondEpsilon /\ max_relative = Zero(FALSE)) => eq_ret = "false"

BigOperands == Defaults /\ lhs = Big(Fmt(ty)) /\ rhs = BigPlusOne(Fmt(ty))

\* C6, as amended: on finite operands that differ by more than epsilon,
\* relative_eq of a primitive type returns
\* |lhs - rhs| <= max(|lhs|, |rhs|) * max_relative; under the default
\* tolerances (10000, 10001) is unequal; (1.0, 1.5) is equal with
\* max_relative = 0.34 and unequal with 0.33; with max_relative = 0 the
\* result is false; and under the default tolerances
\* (100000000, 100000001) is equal in f32, where the two literals are the
\* same value, and unequal in f64.
C6_RelativeTolerance ==
    PrimCalled
        => /\ RelativeTest
           /\ ScalingExamples
           /\ BigOperands => eq_ret = Returns(ty = "f32")

C6_Witness ==
    /\ PrimCalled
    /\ lhs = One(Fmt(ty))
    /\ rhs = OneAndHalf(Fmt(ty))
    /\ epsilon = default_epsilon(Fmt(ty))
    /\ max_relative = Rel34(Fmt(ty))
    /\ eq_ret = "true"

\* C6 as stated: the same, with (100000000, 100000001) equal under the
\* default tolerances in every primitive type.
C6_AsStated ==
    PrimCalled
        => /\ RelativeTest
           /\ ScalingExamples
           /\ BigOperands => eq_ret = "true"

\* |lhs - rhs| <= epsilon, or |lhs - rhs| <= max_relative * max(|lhs|, |rhs|)
WithinTolerance ==
    \/ FLe(Fmt(ty), AbsDiff, epsilon)
    \/ FLe(Fmt(ty), AbsDiff, FMul(Fmt(ty), max_relative, MaxAbs))

\* C7, as amended: for finite operands of a primitive type and all
\* tolerances, if |lhs - rhs| <= epsilon or
\* |lhs - rhs| <= max_relative * max(|lhs|, |rhs|) then relative_eq
\* returns true.
C7_ContainsTolerances ==
    (PrimCalled /\ BothFinite /\ WithinTolerance) => eq_ret = "true"

C7_Witness ==
    /\ PrimCalled
    /\ lhs = OneAndHalf(Fmt(ty))
    /\ rhs = One(Fmt(ty))
    /\ epsilon = Zero(FALSE)
    /\ max_relative = Rel34(Fmt(ty))
    /\ eq_ret = "true"

\* C7 as stated: the same for all numbers, finite or infinite.
C7_AsStated ==
    (/\ PrimCalled
     /\ ~is_nan(Fmt(ty), lhs)
     /\ ~is_nan(Fmt(ty), rhs)
     /\ WithinTolerance)
        => eq_ret = "true"

SliceCalled == shape = "slice" /\ eq_ret # "none"

\* C8: relative_eq of two slices returns true exactly when the lengths are
\* equal and at every index the elements are relative-equal with the same
\* epsilon and max_relative; so slices of different lengths are unequal
\* whatever the tolerances, and [1, 2] and [2, 1] are unequal under the
\* default tolerances.
C8_Slices ==
    SliceCalled
        => /\ eq_ret = Returns(/\ Len(lhs) = Len(rhs)
                               /\ \A i \in 1..Len(lhs) :
                                     relative_eq(Fmt(ty), lhs[i], rhs[i],
                                                 epsilon, max_relative))
           /\ Len(lhs) # Len(rhs) => eq_ret = "false"
           /\ (/\ Defaults
               /\ lhs = <<One(Fmt(ty)), Two(Fmt(ty))>>
               /\ rhs = <<Two(Fmt(ty)), One(Fmt(ty))>>)
                 => eq_ret = "false"

C8_Witness ==
    /\ SliceCalled
    /\ lhs = <<One(Fmt(ty)), Two(Fmt(ty))>>
    /\ rhs = <<One(Fmt(ty)), Two(Fmt(ty)), Three(Fmt(ty))>>
    /\ max_relative = INFINITY(Fmt(ty))
    /\ eq_ret = "false"

RefCellCalled == shape = "refcell" /\ eq_ret # "none"

\* C9: relative_eq of two RefCells panics when a writer holds either cell;
\* when both are unused or held by readers only (the two operands may be
\* the same cell) it returns the relative_eq of the values inside.
C9_RefCell ==
    RefCellCalled
        => eq_ret = IF \/ is_writing(cells[lhs].borrow)
                       \/ is_writing(cells[rhs].borrow)
                    THEN "panic"
                    ELSE Returns(relative_eq(Fmt(ty), cells[lhs].value,
                                             cells[rhs].value,
                                             epsilon, max_relative))

C9_Witness ==
    /\ RefCellCalled
    /\ cells[lhs].borrow = 1
    /\ cells[rhs].borrow = -1
    /\ eq_ret = "panic"

\* a step in which a call of relative_eq or relative_ne returns
CallReturns ==
    \/ eq_ret = "none" /\ Returned(eq_ret')
    \/ ne_ret = "none" /\ Returned(ne_ret')

\* C10: a call of relative_eq or relative_ne that returns leaves the
\* operands as they were, the contents and the borrow state of every Cell
\* and RefCell included.
C10_Frame ==
    [][CallReturns => (lhs' = lhs /\ rhs' = rhs /\ cells' = cells)]_vars

C10_Witness ==
    /\ shape = "refcell"
    /\ lhs # rhs
    /\ cells[lhs].borrow = 0
    /\ cells[rhs].borrow = 1
    /\ eq_ret = "true"
    /\ ne_ret = "false"


\* the value of T behind an operand: inside the Cell, behind the reference
\* or inside the wrapper, or the operand itself
Unwrapped(kind, cs, x) ==
    IF kind = "cell" THEN cs[x].value
    ELSE IF kind = "prim" THEN x
    ELSE x.inner

LhsValue == Unwrapped(IF shape = "cell" THEN "cell" ELSE LeftKind(shape), cells, lhs)
RhsValue == Unwrapped(IF shape = "cell" THEN "cell" ELSE RightKind(shape), cells, rhs)

ForwardingCalled ==
    /\ shape \in ForwardingShapes \cup {"cell"}
    /\ eq_ret # "none"

\* C11: relative_eq of two references, two exclusive references, two Cells,
\* two NotNans or two OrderedFloats returns what T's relative_eq returns on
\* the wrapped values with the same tolerances, and default_max_relative of
\* each of these types is T's.
C11_Forwarding ==
    /\ ForwardingCalled =>
           eq_ret = Returns(relative_eq(Fmt(ty), LhsValue, RhsValue,
                                        epsilon, max_relative))
    /\ shape \in ForwardingShapes \cup {"cell"} =>
           dispatch_default_max_relative(shape, Fmt(ty)) = EPSILON(Fmt(ty))

\* two different values behind references, equal within the tolerance passed
\* through
C11_Witness ==
    /\ shape = "ref"
    /\ eq_ret = "true"
    /\ deref(lhs) = One(Fmt(ty))
    /\ deref(rhs) = OneAndHalf(Fmt(ty))
    /\ max_relative = Rel34(Fmt(ty))

HeterogeneousCalled ==
    /\ shape \in WrapperLeftShapes \cup WrapperRightShapes
    /\ eq_ret # "none"

\* C12: relative_eq between a NotNan or an OrderedFloat and its primitive
\* type, with the wrapper on the left or on the right, returns what the
\* primitive relative_eq returns on the unwrapped value and the primitive
\* with the same tolerances.
\* Under the default tolerances OrderedFloat(1.0) and 1.0 are equal in both
\* orders, and OrderedFloat(1.0) vs 2.0 and 1.0 vs OrderedFloat(2.0) are
\* unequal.
C12_Heterogeneous ==
    /\ HeterogeneousCalled =>
           eq_ret = Returns(relative_eq(Fmt(ty), LhsValue, RhsValue,
                                        epsilon, max_relative))
    /\ (/\ HeterogeneousCalled
        /\ Defaults
        /\ LhsValue = One(Fmt(ty))) =>
           /\ RhsValue = One(Fmt(ty)) => eq_ret = "true"
           /\ RhsValue = Two(Fmt(ty)) => eq_ret = "false"

\* 1.0 against OrderedFloat(2.0), the primitive on the left: unequal
C12_Witness ==
    /\ shape = "prim_ordered"
    /\ Defaults
    /\ lhs = One(Fmt(ty))
    /\ into_inner(rhs) = Two(Fmt(ty))
    /\ eq_ret = "false"
    /\ ne_ret = "true"

\* C13: relative_eq of a primitive type returns the same on (a, b) and on
\* (b, a), whatever the operands (finite, zero of either sign, infinite or
\* NaN) and the tolerances; so does relative_eq of two slices.
C13_Symmetric ==
    /\ PrimCalled =>
           eq_ret = Returns(relative_eq(Fmt(ty), rhs, lhs, epsilon, max_relative))
    /\ SliceCalled =>
           eq_ret = Returns(slice_relative_eq(Fmt(ty), rhs, lhs,
                                              epsilon, max_relative))

\* the smaller magnitude on the left, and the pair equal only by the relative
\* test against the larger magnitude
C13_Witness ==
    /\ PrimCalled
    /\ lhs = One(Fmt(ty))
    /\ rhs = OneAndHalf(Fmt(ty))
    /\ epsilon = Zero(FALSE)
    /\ max_relative = Rel34(Fmt(ty))
    /\ eq_ret = "true"

\* tolerances no smaller than the ones of the call
Widened(fmt, eps, max_rel) ==
    /\ NonNegative(fmt, eps)
    /\ NonNegative(fmt, max_rel)
    /\ FLe(fmt, epsilon, eps)
    /\ FLe(fmt, max_relative, max_rel)

\* C14: when relative_eq of a primitive type returns true under nonnegative
\* epsilon and max_relative, it returns true under every epsilon' >= epsilon
\* and max_relative' >= max_relative.
C14_Monotone ==
    (/\ PrimCalled
     /\ eq_ret = "true"
     /\ NonNegative(Fmt(ty), epsilon)
     /\ NonNegative(Fmt(ty), max_relative)) =>
        \A eps \in EpsilonValues(Fmt(ty)) :
            \A max_rel \in MaxRelativeValues(Fmt(ty)) :
                Widened(Fmt(ty), eps, max_rel) =>
                    relative_eq(Fmt(ty), lhs, rhs, eps, max_rel)

\* a pair that differs, equal under an epsilon and a max_relative that can
\* both be widened
C14_Witness ==
    /\ PrimCalled
    /\ eq_ret = "true"
    /\ lhs = One(Fmt(ty))
    /\ rhs = OneAndHalf(Fmt(ty))
    /\ epsilon = Zero(FALSE)
    /\ max_relative = Rel34(Fmt(ty))
    /\ ne_ret = "false"

====
